---------------------------- MODULE Spec2Model ----------------------------
(***************************************************************************)
(* Model of the acquisitions-jsm repository:                               *)
(*   - the cookie helper      src/src/utils/cookies.js                     *)
(*   - the smoke-test harness src/src/app.test.js                          *)
(* The two components share nothing; each has its own specification        *)
(* (Spec for the cookie helper, HarnessSpec / HarnessFairSpec for the      *)
(* harness) over one set of variables.                                     *)
(***************************************************************************)
EXTENDS Integers, Sequences, FiniteSets, TLC

VARIABLES
    env,          \* process.env.NODE_ENV ("undefined" when the flag is absent)
    log,          \* history: the calls made to the helper, in order
    pc,           \* where the test runner is in the describe() group
    state,        \* listener lifecycle: NotStarted, Listening, Closed
    portOwner,    \* who holds the test port: none, other, harness
    server,       \* the `server` variable of the describe() closure
    setupPromise, \* the promise the before hook awaits: none, pending, resolved
    listenError,  \* the server emitted 'error' on listen (port in use)
    cur,          \* index of the test to run or running (1..3), 4 when all have run
    outcome,      \* per test: pending, running, pass, fail:<reason>
    reqPhase,     \* the request of the running test: none, sent, receiving, ended,
                  \* failed, aborted
    wire,         \* body tokens the server has still to send
    response,     \* res.statusCode and res.headers of the response being received
    data,         \* the `data` variable of the response callback
    received,     \* history: the chunks delivered to the 'data' handler
    promise,      \* the promise makeRequest returned
    issuedIn,     \* history: per test, the listener state when it sent its request
    closeCalls,   \* history: how many times server.close was called
    netError,     \* history: per test, the connection-level error of its request
    sends         \* history: per test, how many requests it has sent

cookieVars == <<env, log>>
harnessVars == <<pc, state, portOwner, server, setupPromise, listenError, cur,
                 outcome, reqPhase, wire, response, data, received, promise,
                 issuedIn, closeCalls, netError, sends>>
vars == <<env, log, pc, state, portOwner, server, setupPromise,
          listenError, cur, outcome, reqPhase, wire, response, data, received,
          promise, issuedIn, closeCalls, netError, sends>>

(***************************************************************************)
(* Bounds and input sets                                                   *)
(***************************************************************************)
MaxCalls == 2

Envs == {"undefined", "production", "development"}
ResTargets == {"resA", "resB"}
Names == {"token", "sid"}
Values == {"abc"}

\* a longer-lived cookie, as a call site may ask for
WeekMs == 7 * 24 * 60 * 60 * 1000

\* the overrides of a call site that deviates from the policy: two default
\* keys replaced, two left alone, and a key that has no default
CallSiteOverrides == [maxAge |-> WeekMs, secure |-> FALSE, path |-> "/api"]

\* override maps a call site may pass (the empty map is the default `= {}`)
OverrideMaps == { [k \in {} |-> TRUE], CallSiteOverrides }

\* request objects: with nothing parsed, with cookie-parser's `cookies`
\* collection, and with a `cookie` field
Requests ==
    { [url |-> "/"],
      [url |-> "/", cookies |-> [token |-> "abc"]],
      [url |-> "/", cookie |-> [token |-> "abc"]] }

(***************************************************************************)
(* src/src/utils/cookies.js                                                *)
(***************************************************************************)
\* the object-spread merge { ...a, ...b }: keys of both, b's value on collision
Spread(a, b) ==
    [k \in (DOMAIN a) \cup (DOMAIN b) |-> IF k \in DOMAIN b THEN b[k] ELSE a[k]]

\* the attribute set memoized by the first call
getOptionsMemoized(e) ==
    [httpOnly |-> TRUE,
     secure   |-> ((IF log = <<>> THEN e ELSE log[1].envAt) = "production"),
     sameSite |-> "strict",
     maxAge   |-> 15 * 60 * 1000]

getOptionsSecureUnlessDev(e) ==
    [httpOnly |-> TRUE,
     secure   |-> (e # "development"),
     sameSite |-> "strict",
     maxAge   |-> 15 * 60 * 1000]

\* cookies.getOptions, e being process.env.NODE_ENV at the call
getOptions(e) ==
    [httpOnly |-> TRUE,
     secure   |-> (e = "production"),
     sameSite |-> "strict",
     maxAge   |-> 15 * 60 * 1000]

\* a defaults object shared between calls, the previous call's overrides
\* still written into it
mergeSharedDefaults(e, options) ==
    IF log # <<>> /\ log[Len(log)].op \in {"set", "clear"}
    THEN Spread(Spread(getOptions(e), log[Len(log)].overrides), options)
    ELSE Spread(getOptions(e), options)

mergeDefaultsLast(e, options) == Spread(options, getOptions(e))

\* { ...cookies.getOptions(), ...options }
merge(e, options) == Spread(getOptions(e), options)

\* the caller's override map after the call: the spread reads it into a new
\* object and writes nothing back
optionsAfter(options) == options

\* the request after get: req.cookie[name] only reads
reqAfter(req) == req

\* what the response target's clearCookie returns: the response itself
clearCookieReturn(res) == res

setAlsoClears(e, res, name, value, options) ==
    [instr |-> << [op |-> "cookie", res |-> res, name |-> name,
                   value |-> value, options |-> merge(e, options)],
                  [op |-> "clearCookie", res |-> res, name |-> name,
                   value |-> "", options |-> merge(e, options)] >>,
     ret   |-> "undefined"]

\* cookies.set: the instructions handed to res, and the value returned
set(e, res, name, value, options) ==
    [instr |-> << [op |-> "cookie", res |-> res, name |-> name,
                   value |-> value, options |-> merge(e, options)] >>,
     ret   |-> "undefined"]

\* cookies.clear
clear(e, res, name, options) ==
    [instr |-> << [op |-> "clearCookie", res |-> res, name |-> name,
                   value |-> "", options |-> merge(e, options)] >>,
     ret   |-> clearCookieReturn(res)]

\* cookies.get: req.cookie[name]; reading a property of undefined throws
get(req, name) ==
    IF "cookie" \notin DOMAIN req
    THEN [kind |-> "throw", value |-> "TypeError"]
    ELSE IF name \in DOMAIN req.cookie
         THEN [kind |-> "return", value |-> req.cookie[name]]
         ELSE [kind |-> "return", value |-> "undefined"]

(***************************************************************************)
(* The response target behind res.cookie / res.clearCookie (Express).      *)
(* A Set-Cookie directive as the client sees it.  maxAge is in             *)
(* milliseconds at the call and in seconds on the wire; an Expires date is *)
(* "epoch" (new Date(1)), "relative" (now + maxAge) or "none".             *)
(***************************************************************************)
ExpressMajors == {4, 5}

Attr(options, k, dflt) == IF k \in DOMAIN options THEN options[k] ELSE dflt

\* res.cookie(name, value, options)
resCookie(name, value, options) ==
    [name     |-> name,
     value    |-> value,
     path     |-> Attr(options, "path", "/"),
     hasMaxAge |-> ("maxAge" \in DOMAIN options),
     maxAgeSec |-> Attr(options, "maxAge", 0) \div 1000,
     expires  |-> IF "maxAge" \in DOMAIN options THEN "relative"
                  ELSE Attr(options, "expires", "none"),
     httpOnly |-> Attr(options, "httpOnly", FALSE),
     secure   |-> Attr(options, "secure", FALSE),
     sameSite |-> Attr(options, "sameSite", "none")]

\* res.clearCookie(name, options): Express 4 merges the caller's options over
\* { expires: new Date(1), path: '/' } and keeps maxAge; Express 5 drops maxAge
\* and forces the expiry date
resClearCookie(major, name, options) ==
    IF major = 4
    THEN resCookie(name, "", Spread([expires |-> "epoch", path |-> "/"], options))
    ELSE resCookie(name, "",
                   Spread([k \in (DOMAIN options) \ {"maxAge"} |-> options[k]],
                          [expires |-> "epoch"]))

\* the Set-Cookie directive an instruction produces
Directive(major, i) ==
    IF i.op = "cookie" THEN resCookie(i.name, i.value, i.options)
    ELSE resClearCookie(major, i.name, i.options)

\* a directive that makes the client drop the cookie: Max-Age wins over
\* Expires (RFC 6265 5.3)
Expired(d) ==
    IF d.hasMaxAge THEN d.maxAgeSec <= 0 ELSE d.expires = "epoch"

\* the cookies (name, path) -> value a client holds after the directives ds
RECURSIVE Jar(_)
Jar(ds) ==
    IF ds = <<>> THEN {}
    ELSE LET d == ds[Len(ds)]
             before == Jar(SubSeq(ds, 1, Len(ds) - 1))
             others == {c \in before : ~(c.name = d.name /\ c.path = d.path)}
         IN  IF Expired(d) THEN others
             ELSE others \cup {[name |-> d.name, path |-> d.path, value |-> d.value]}

\* all instructions the log's first n calls handed to response target res
RECURSIVE Instructions(_, _)
Instructions(res, n) ==
    IF n = 0 THEN <<>>
    ELSE Instructions(res, n - 1) \o
         (IF log[n].op \in {"set", "clear"} /\ log[n].res = res
          THEN log[n].instr ELSE <<>>)

DirectivesOf(major, is) == [j \in 1..Len(is) |-> Directive(major, is[j])]

\* the client's cookies for response target res after the first n calls
ClientJar(major, res, n) == Jar(DirectivesOf(major, Instructions(res, n)))

(***************************************************************************)
(* Calls to the helper                                                     *)
(***************************************************************************)
CookieInit ==
    /\ env \in Envs
    /\ log = <<>>

\* the process environment is changed between calls
SetEnv ==
    /\ \E e \in Envs \ {env} : env' = e
    /\ UNCHANGED log

CallGetOptions ==
    /\ Len(log) < MaxCalls
    /\ log' = Append(log, [op |-> "getOptions", envAt |-> env, ret |-> getOptions(env)])
    /\ UNCHANGED env

CallSet ==
    /\ Len(log) < MaxCalls
    /\ \E res \in ResTargets, name \in Names, value \in Values, options \in OverrideMaps :
          LET r == set(env, res, name, value, options)
          IN  log' = Append(log, [op |-> "set", envAt |-> env, res |-> res,
                                  name |-> name, value |-> value,
                                  overrides |-> options,
                                  after |-> optionsAfter(options),
                                  instr |-> r.instr, ret |-> r.ret])
    /\ UNCHANGED env

CallClear ==
    /\ Len(log) < MaxCalls
    /\ \E res \in ResTargets, name \in Names, options \in OverrideMaps :
          LET r == clear(env, res, name, options)
          IN  log' = Append(log, [op |-> "clear", envAt |-> env, res |-> res,
                                  name |-> name, value |-> "",
                                  overrides |-> options,
                                  after |-> optionsAfter(options),
                                  instr |-> r.instr, ret |-> r.ret])
    /\ UNCHANGED env

CallGet ==
    /\ Len(log) < MaxCalls
    /\ \E req \in Requests, name \in Names :
          log' = Append(log, [op |-> "get", envAt |-> env, req |-> req,
                              name |-> name, after |-> reqAfter(req),
                              ret |-> get(req, name)])
    /\ UNCHANGED env

(***************************************************************************)
(* src/src/app.test.js                                                     *)
(***************************************************************************)
port == 3001

Tests == 1..3

\* the path each it() requests, in declaration order
Path(t) == CASE t = 1 -> "/health" [] t = 2 -> "/" [] OTHER -> "/api"

\* response bodies, as sequences of tokens a chunk boundary may fall between
HealthJson == << "{\"status\":\"OK\",", "\"timestamp\":\"2025-01-01T00:00:00.000Z\",",
                 "\"uptime\":1.5}" >>
HealthDown == << "{\"status\":\"DOWN\"}" >>
RootText   == << "Hello from ", "acquisitions api" >>
ApiJson    == << "{\"message\":", "\"Aquisitions API is running!\"}" >>
NotFound   == << "Not Found" >>

Bodies == {HealthJson, HealthDown, RootText, ApiJson, NotFound, <<>>}
StatusCodes == {200, 500}
HeaderSets == {[contentType |-> "application/json"], [contentType |-> "text/html"]}
TransportErrors == {"ECONNREFUSED", "ECONNRESET"}

\* JSON.parse of a body: the value, or a SyntaxError
JSONparse(d) ==
    CASE d = HealthJson -> [ok |-> TRUE,
                            value |-> [status |-> "OK",
                                       timestamp |-> "2025-01-01T00:00:00.000Z",
                                       uptime |-> "number"]]
      [] d = HealthDown -> [ok |-> TRUE, value |-> [status |-> "DOWN"]]
      [] d = ApiJson    -> [ok |-> TRUE,
                            value |-> [message |-> "Aquisitions API is running!"]]
      [] OTHER          -> [ok |-> FALSE, value |-> "SyntaxError"]

Field(obj, k) == IF k \in DOMAIN obj THEN obj[k] ELSE "undefined"

\* the body of each it(): the outcome for a resolved response r
TestBody(t, r) ==
    IF r.statusCode # 200 THEN "fail:assertion"
    ELSE IF t = 2
         THEN IF r.data = RootText THEN "pass" ELSE "fail:assertion"
         ELSE LET j == JSONparse(r.data) IN
              IF ~j.ok THEN "fail:syntax"
              ELSE IF t = 1
                   THEN IF /\ Field(j.value, "status") = "OK"
                           /\ Field(j.value, "timestamp") # "undefined"
                           /\ Field(j.value, "uptime") = "number"
                        THEN "pass" ELSE "fail:assertion"
                   ELSE IF Field(j.value, "message") = "Aquisitions API is running!"
                        THEN "pass" ELSE "fail:assertion"

\* the options object of makeRequest
RequestOptions(path) ==
    [hostname |-> "localhost", port |-> port, path |-> path, method |-> "GET",
     headers |-> [contentType |-> "application/json"]]

overwriteChunk(d, chunk) == chunk

\* data += chunk
appendChunk(d, chunk) == d \o chunk

RECURSIVE Concat(_)
Concat(chunks) ==
    IF chunks = <<>> THEN <<>> ELSE Head(chunks) \o Concat(Tail(chunks))

NoPromise == [status |-> "none"]
NoResponse == [statusCode |-> 0, headers |-> <<>>]

HarnessInit ==
    /\ pc = "before"
    /\ state = "NotStarted"
    /\ portOwner \in {"none", "other"}
    /\ server = "undefined"
    /\ setupPromise = "none"
    /\ listenError = FALSE
    /\ cur = 1
    /\ outcome = [t \in Tests |-> "pending"]
    /\ reqPhase = "none"
    /\ wire = <<>>
    /\ response = NoResponse
    /\ data = <<>>
    /\ received = <<>>
    /\ promise = NoPromise
    /\ issuedIn = [t \in Tests |-> "none"]
    /\ closeCalls = 0
    /\ netError = [t \in Tests |-> "none"]
    /\ sends = [t \in Tests |-> 0]

requestVars == <<reqPhase, wire, response, data, received, promise>>

beforeNoAwait == setupPromise # "none"

\* the before hook returns once the promise it awaits is resolved
beforeDone == setupPromise = "resolved"

\* before: server = http.createServer(app); server.listen(port, resolve)
Before ==
    /\ pc = "before"
    /\ server' = "server"
    /\ setupPromise' = "pending"
    /\ pc' = "beforeAwait"
    /\ UNCHANGED <<state, portOwner, listenError, cur, outcome, requestVars,
                   issuedIn, closeCalls,
                   netError, sends>>

\* the listener binds the port
Bind ==
    /\ setupPromise = "pending" /\ state = "NotStarted" /\ closeCalls = 0
    /\ portOwner = "none"
    /\ portOwner' = "harness"
    /\ state' = "Listening"
    /\ UNCHANGED <<pc, server, setupPromise, listenError, cur, outcome,
                   requestVars, issuedIn, closeCalls,
                   netError, sends>>

BindFailsRejects ==
    /\ setupPromise = "pending" /\ state = "NotStarted" /\ closeCalls = 0
    /\ portOwner = "other" /\ ~listenError
    /\ listenError' = TRUE
    /\ setupPromise' = "rejected"
    /\ UNCHANGED <<pc, state, portOwner, server, cur, outcome, requestVars,
                   issuedIn, closeCalls, netError, sends>>

\* the port is in use: the server emits 'error'; nothing settles the promise
BindFails ==
    /\ setupPromise = "pending" /\ state = "NotStarted" /\ closeCalls = 0
    /\ portOwner = "other" /\ ~listenError
    /\ listenError' = TRUE
    /\ UNCHANGED <<pc, state, portOwner, server, setupPromise, cur, outcome,
                   requestVars, issuedIn, closeCalls,
                   netError, sends>>

\* the callback given to server.listen: resolve
ListenCallback ==
    /\ state = "Listening" /\ setupPromise = "pending"
    /\ setupPromise' = "resolved"
    /\ UNCHANGED <<pc, state, portOwner, server, listenError, cur, outcome,
                   requestVars, issuedIn, closeCalls,
                   netError, sends>>

\* the runner goes on to the tests once the before hook has returned
BeforeReturns ==
    /\ pc = "beforeAwait" /\ beforeDone
    /\ pc' = "tests"
    /\ UNCHANGED <<state, portOwner, server, setupPromise, listenError, cur,
                   outcome, requestVars, issuedIn, closeCalls,
                   netError, sends>>

\* an it() starts: makeRequest(path) creates the promise and req.end() sends
StartTest ==
    /\ pc = "tests" /\ cur \in Tests /\ outcome[cur] = "pending"
    /\ outcome' = [outcome EXCEPT ![cur] = "running"]
    /\ promise' = [status |-> "pending", request |-> RequestOptions(Path(cur))]
    /\ reqPhase' = "sent"
    /\ issuedIn' = [issuedIn EXCEPT ![cur] = state]
    /\ sends' = [sends EXCEPT ![cur] = @ + 1]
    /\ UNCHANGED <<pc, state, portOwner, server, setupPromise, listenError, cur,
                   wire, response, data, received, closeCalls, netError>>

\* the response callback: let data = ''; the handlers are registered
ResponseHead ==
    /\ reqPhase = "sent" /\ state = "Listening"
    /\ \E sc \in StatusCodes, h \in HeaderSets, b \in Bodies :
          /\ response' = [statusCode |-> sc, headers |-> h]
          /\ wire' = b
    /\ data' = <<>>
    /\ received' = <<>>
    /\ reqPhase' = "receiving"
    /\ UNCHANGED <<pc, state, portOwner, server, setupPromise, listenError, cur,
                   outcome, promise, issuedIn, closeCalls,
                   netError, sends>>

\* res.on('data'): a chunk of the body arrives
DataChunk ==
    /\ reqPhase = "receiving" /\ wire # <<>>
    /\ \E k \in 1..Len(wire) :
          LET chunk == SubSeq(wire, 1, k) IN
          /\ data' = appendChunk(data, chunk)
          /\ received' = Append(received, chunk)
          /\ wire' = SubSeq(wire, k + 1, Len(wire))
    /\ UNCHANGED <<pc, state, portOwner, server, setupPromise, listenError, cur,
                   outcome, reqPhase, response, promise, issuedIn, closeCalls,
                   netError, sends>>

\* 'end' is emitted once the whole body has been delivered
endEmitted == reqPhase = "receiving" /\ wire = <<>>

\* res.on('end'): resolve({ statusCode, headers, data })
End ==
    /\ endEmitted
    /\ promise.status = "pending"
    /\ promise' = [status |-> "resolved",
                   value |-> [statusCode |-> response.statusCode,
                              headers |-> response.headers,
                              data |-> data]]
    /\ reqPhase' = "ended"
    /\ UNCHANGED <<pc, state, portOwner, server, setupPromise, listenError, cur,
                   outcome, wire, response, data, received, issuedIn, closeCalls,
                   netError, sends>>

\* req.on('error'): reject(error)
RequestError ==
    /\ reqPhase = "sent"
    /\ promise.status = "pending"
    /\ \E e \in TransportErrors :
          /\ (e = "ECONNREFUSED") <=> (state # "Listening")
          /\ promise' = [status |-> "rejected", value |-> e]
          /\ netError' = [netError EXCEPT ![cur] = e]
    /\ reqPhase' = "failed"
    /\ UNCHANGED <<pc, state, portOwner, server, setupPromise, listenError, cur,
                   outcome, wire, response, data, received, issuedIn, closeCalls,
                   sends>>

\* the connection is reset before the whole body has arrived: res emits
\* 'aborted' and 'close'; req emits no 'error' and res never emits 'end', and
\* no handler is registered for anything else
ResponseAborted ==
    /\ reqPhase = "receiving" /\ wire # <<>>
    /\ netError' = [netError EXCEPT ![cur] = "ECONNRESET"]
    /\ reqPhase' = "aborted"
    /\ UNCHANGED <<pc, state, portOwner, server, setupPromise, listenError, cur,
                   outcome, wire, response, data, received, promise, issuedIn,
                   closeCalls, sends>>

\* the awaited promise settles and the it() runs to its end
FinishTest ==
    /\ pc = "tests" /\ cur \in Tests /\ outcome[cur] = "running"
    /\ promise.status \in {"resolved", "rejected"}
    /\ outcome' = [outcome EXCEPT ![cur] =
                      IF promise.status = "rejected" THEN "fail:transport"
                      ELSE TestBody(cur, promise.value)]
    /\ cur' = cur + 1
    /\ reqPhase' = "none"
    /\ wire' = <<>>
    /\ response' = NoResponse
    /\ data' = <<>>
    /\ received' = <<>>
    /\ promise' = NoPromise
    /\ UNCHANGED <<pc, state, portOwner, server, setupPromise, listenError,
                   issuedIn, closeCalls,
                   netError, sends>>

AllFinished == \A t \in Tests : outcome[t] \notin {"pending", "running"}

AfterNoClose ==
    /\ pc = "tests" /\ cur \notin Tests
    /\ pc' = "done"
    /\ UNCHANGED <<state, portOwner, server, setupPromise, listenError, cur,
                   outcome, requestVars, issuedIn, closeCalls,
                   netError, sends>>

\* after: if (server) server.close(resolve), run once every it() has finished
After ==
    /\ pc = "tests" /\ cur \notin Tests
    /\ IF server # "undefined"
       THEN /\ closeCalls' = closeCalls + 1
            /\ state' = IF state = "Listening" THEN "Closed" ELSE state
            /\ portOwner' = IF portOwner = "harness" THEN "none" ELSE portOwner
            /\ pc' = "afterAwait"
       ELSE /\ pc' = "done"
            /\ UNCHANGED <<state, portOwner, closeCalls>>
    /\ UNCHANGED <<server, setupPromise, listenError, cur, outcome, requestVars,
                   issuedIn, netError, sends>>

\* the callback given to server.close: resolve
CloseCallback ==
    /\ pc = "afterAwait"
    /\ pc' = "done"
    /\ UNCHANGED <<state, portOwner, server, setupPromise, listenError, cur,
                   outcome, requestVars, issuedIn, closeCalls,
                   netError, sends>>

(***************************************************************************)
(* Specifications                                                          *)
(***************************************************************************)
\* the cookie helper, the harness not started
Init == CookieInit /\ HarnessInit /\ portOwner = "none"

Next ==
    \/ SetEnv /\ UNCHANGED harnessVars
    \/ CallGetOptions /\ UNCHANGED harnessVars
    \/ CallSet /\ UNCHANGED harnessVars
    \/ CallClear /\ UNCHANGED harnessVars
    \/ CallGet /\ UNCHANGED harnessVars

Spec == Init /\ [][Next]_vars

\* the harness, the cookie helper not called
HarnessSpecInit == HarnessInit /\ env = "undefined" /\ log = <<>>

HarnessNext ==
    \/ Before /\ UNCHANGED cookieVars
    \/ Bind /\ UNCHANGED cookieVars
    \/ BindFails /\ UNCHANGED cookieVars
    \/ ListenCallback /\ UNCHANGED cookieVars
    \/ BeforeReturns /\ UNCHANGED cookieVars
    \/ StartTest /\ UNCHANGED cookieVars
    \/ ResponseHead /\ UNCHANGED cookieVars
    \/ DataChunk /\ UNCHANGED cookieVars
    \/ End /\ UNCHANGED cookieVars
    \/ RequestError /\ UNCHANGED cookieVars
    \/ ResponseAborted /\ UNCHANGED cookieVars
    \/ FinishTest /\ UNCHANGED cookieVars
    \/ After /\ UNCHANGED cookieVars
    \/ CloseCallback /\ UNCHANGED cookieVars

HarnessSpec == HarnessSpecInit /\ [][HarnessNext]_vars

\* the runner calls the after hook once the tests have finished, and the
\* listener's close callback fires once close has been called
HarnessFairSpec ==
    /\ HarnessSpecInit
    /\ [][HarnessNext]_vars
    /\ WF_vars(After /\ UNCHANGED cookieVars)
    /\ WF_vars(CloseCallback /\ UNCHANGED cookieVars)

(***************************************************************************)
(* Properties of the cookie helper (under Spec)                            *)
(***************************************************************************)
Calls(ops) == {i \in 1..Len(log) : log[i].op \in ops}

NoOverrides == [k \in {} |-> TRUE]

\* the attribute set handed to the response target by call i
Handed(i) == log[i].instr[1].options

\* C1 - override precedence: in the attribute set that set and clear hand to
\* the response target, every key of the overrides has the override's value,
\* and every default key absent from the overrides has the value getOptions()
\* returns at that call.
C1_OverridePrecedence ==
    \A i \in Calls({"set", "clear"}) :
        /\ \A k \in DOMAIN log[i].overrides :
              k \in DOMAIN Handed(i) /\ Handed(i)[k] = log[i].overrides[k]
        /\ \A k \in {"httpOnly", "secure", "sameSite", "maxAge"} \ DOMAIN log[i].overrides :
              k \in DOMAIN Handed(i) /\ Handed(i)[k] = getOptions(log[i].envAt)[k]

\* a set that overrides the default maxAge, and a clear that overrides secure
\* in production, each handed on with the override's value
C1_Witness ==
    \E i, j \in 1..Len(log) :
        /\ log[i].op = "set" /\ log[i].overrides = CallSiteOverrides
        /\ Handed(i).maxAge = WeekMs /\ Handed(i).sameSite = "strict"
        /\ log[j].op = "clear" /\ log[j].envAt = "production"
        /\ "secure" \in DOMAIN log[j].overrides
        /\ Handed(j).secure = FALSE /\ Handed(j).path = "/api"

\* C2 - environment sensitivity: getOptions() returns httpOnly = true,
\* sameSite = "strict", maxAge = 900000, and secure = true exactly when
\* NODE_ENV is "production" (false for any other value and for an absent flag).
C2_EnvironmentSensitivity ==
    \A i \in Calls({"getOptions"}) :
        /\ log[i].ret.httpOnly = TRUE
        /\ log[i].ret.sameSite = "strict"
        /\ log[i].ret.maxAge = 900000
        /\ log[i].ret.secure = (log[i].envAt = "production")
        /\ DOMAIN log[i].ret = {"httpOnly", "secure", "sameSite", "maxAge"}

\* getOptions was called in production and with the flag absent
C2_Witness ==
    \E i, j \in Calls({"getOptions"}) :
        /\ log[i].envAt = "production" /\ log[i].ret.secure = TRUE
        /\ log[j].envAt = "undefined" /\ log[j].ret.secure = FALSE

\* the request's parsed cookie collection (cookie-parser's req.cookies)
HasParsedCookies(req) == "cookies" \in DOMAIN req

\* C3 - get by name: when the request's parsed cookie collection contains the
\* cookie, get returns its value; for a name not in the collection it returns
\* undefined and raises no error.
C3_GetByName ==
    \A i \in Calls({"get"}) :
        HasParsedCookies(log[i].req) =>
            IF log[i].name \in DOMAIN log[i].req.cookies
            THEN log[i].ret = [kind |-> "return",
                               value |-> log[i].req.cookies[log[i].name]]
            ELSE log[i].ret = [kind |-> "return", value |-> "undefined"]

\* C4 - get without a parsed collection: when the request exposes no parsed
\* cookie collection at all, get yields undefined and never ends in an error,
\* for every cookie name.
C4_GetWithoutCollection ==
    \A i \in Calls({"get"}) :
        ("cookies" \notin DOMAIN log[i].req /\ "cookie" \notin DOMAIN log[i].req)
            => log[i].ret = [kind |-> "return", value |-> "undefined"]

\* C5 - set side effect: one call of set issues exactly one cookie-store
\* instruction to res, with that name, that value and the merged attributes
\* (defaults overlaid by overrides), and no cookie-clear instruction; with no
\* overrides the attributes are httpOnly, sameSite strict, maxAge 900000 and
\* secure per the environment.
C5_SetSideEffect ==
    \A i \in Calls({"set"}) :
        LET is == log[i].instr
            dflt == [httpOnly |-> TRUE, sameSite |-> "strict", maxAge |-> 900000,
                     secure |-> (log[i].envAt = "production")]
        IN  /\ Len(is) = 1
            /\ is[1].op = "cookie"
            /\ is[1].res = log[i].res
            /\ is[1].name = log[i].name
            /\ is[1].value = log[i].value
            /\ DOMAIN is[1].options = DOMAIN dflt \cup DOMAIN log[i].overrides
            /\ \A k \in DOMAIN is[1].options :
                  is[1].options[k] = IF k \in DOMAIN log[i].overrides
                                     THEN log[i].overrides[k] ELSE dflt[k]
            /\ log[i].overrides = NoOverrides => is[1].options = dflt

\* set was called without overrides in production and with overrides elsewhere
C5_Witness ==
    \E i, j \in Calls({"set"}) :
        /\ log[i].overrides = NoOverrides /\ log[i].envAt = "production"
        /\ log[i].name = "token" /\ log[i].value = "abc"
        /\ Handed(i).secure = TRUE
        /\ log[j].overrides # NoOverrides /\ log[j].envAt # "production"

\* a set of (res, name) at i followed by a clear of (res, name) at j
SetThenClear(i, j) ==
    /\ i < j
    /\ log[i].op = "set" /\ log[j].op = "clear"
    /\ log[i].res = log[j].res /\ log[i].name = log[j].name
    /\ \A k \in (i + 1)..(j - 1) :
          ~(log[k].op = "set" /\ log[k].res = log[i].res /\ log[k].name = log[i].name)

Holds(major, res, n, name) == \E c \in ClientJar(major, res, n) : c.name = name

C7_FreshDefaults ==
    /\ \A i \in Calls({"getOptions"}) :
          log[i].ret.secure = (log[i].envAt = "production")
    /\ \A i \in Calls({"set", "clear"}) :
          "secure" \notin DOMAIN log[i].overrides =>
              Handed(i).secure = (log[i].envAt = "production")
    /\ \A i, j \in Calls({"getOptions"}) :
          log[i].envAt = log[j].envAt => log[i].ret = log[j].ret

\* the flag changed between two calls and the second call followed it
C7_Witness ==
    /\ Len(log) = 2
    /\ log[1].op = "getOptions" /\ log[1].envAt = "production"
    /\ log[1].ret.secure = TRUE
    /\ log[2].op = "set" /\ log[2].envAt = "undefined"
    /\ log[2].overrides = NoOverrides /\ Handed(2).secure = FALSE

(***************************************************************************)
(* Properties of the harness (under HarnessSpec / HarnessFairSpec)         *)
(***************************************************************************)
TeardownSafe ==
    /\ closeCalls <= 1
    /\ closeCalls = 1 => AllFinished /\ state = "Closed"
    /\ pc = "done" => closeCalls = 1 /\ state = "Closed" /\ portOwner = "none"

\* C8 - teardown guarantee: when setup bound the listener, the listener is
\* closed exactly once, only after all three tests have finished, whatever
\* their outcomes; once the tests have outcomes the run ends Closed with the
\* port free.
C8_TeardownGuarantee ==
    /\ []TeardownSafe
    /\ (state = "Listening" /\ AllFinished)
          ~> (pc = "done" /\ state = "Closed" /\ portOwner = "none" /\ closeCalls = 1)

\* a run that ended closed after an assertion failure, a rejected request
\* and a pass
C8_Witness ==
    /\ pc = "done" /\ state = "Closed" /\ closeCalls = 1 /\ portOwner = "none"
    /\ outcome[1] = "fail:assertion"
    /\ outcome[2] = "fail:transport"
    /\ outcome[3] = "pass"

LifecycleStep ==
    /\ state = "NotStarted" => state' \in {"NotStarted", "Listening"}
    /\ state = "Listening" => state' \in {"Listening", "Closed"}
    /\ state = "Closed" => state' = "Closed"

RequestsWhileListening ==
    /\ \A t \in Tests : issuedIn[t] \in {"none", "Listening"}
    /\ \A t \in Tests : outcome[t] # "pending" => setupPromise = "resolved"
    /\ reqPhase \in {"sent", "receiving"} => state = "Listening"

\* C9 - setup before tests: the lifecycle only moves NotStarted -> Listening
\* -> Closed, and every request is issued while the listener is Listening:
\* no test starts before the listen callback has fired and no request is
\* issued once the listener is closed.
C9_SetupBeforeTests ==
    /\ [][LifecycleStep]_vars
    /\ []RequestsWhileListening

\* all three tests sent their request while Listening and the listener closed
C9_Witness ==
    /\ \A t \in Tests : issuedIn[t] = "Listening"
    /\ state = "Closed"

\* C10 - full-body collection: makeRequest resolves only after 'end', with
\* data equal to the concatenation, in arrival order, of every chunk received
\* (empty when none arrived) and with the response's statusCode and headers.
C10_FullBody ==
    promise.status = "resolved" =>
        /\ reqPhase = "ended"
        /\ wire = <<>>
        /\ promise.value.data = Concat(received)
        /\ promise.value.statusCode = response.statusCode
        /\ promise.value.headers = response.headers

\* a body that arrived in three chunks was resolved whole
C10_Witness ==
    /\ promise.status = "resolved"
    /\ Len(received) = 3
    /\ promise.value.data = HealthJson
    /\ promise.value.statusCode = 200

Failures == {"fail:assertion", "fail:syntax", "fail:transport"}

\* C11 - transport errors: whenever a connection-level error (refused,
\* reset) occurs for a request of makeRequest, the promise is rejected with
\* that error and the calling test fails; no test sends its request twice.
C11_TransportErrors ==
    \A t \in Tests :
        /\ sends[t] <= 1
        /\ netError[t] # "none" =>
              \/ /\ cur = t /\ outcome[t] = "running"
                 /\ promise = [status |-> "rejected", value |-> netError[t]]
              \/ outcome[t] = "fail:transport"

\* C12 - failure isolation: a failure of one test (assertion mismatch or
\* transport error) fails only that test: the run goes on, so that every
\* other test runs and gets its own outcome and teardown is reached.
C12_FailureIsolation ==
    /\ \A t \in Tests :
          (netError[t] # "none" \/ outcome[t] \in Failures)
              => (pc = "done" \/ ENABLED HarnessNext)
    /\ pc = "done" => \A t \in Tests : outcome[t] \in {"pass"} \cup Failures
    /\ \A t \in Tests : outcome[t] = "fail:transport" => netError[t] # "none"

\* the attribute set call i's own arguments and the flag at the call determine
OwnAttributes(i) ==
    LET o == log[i].overrides
        d == [httpOnly |-> TRUE, secure |-> (log[i].envAt = "production"),
              sameSite |-> "strict", maxAge |-> 900000]
    IN  [k \in DOMAIN d \cup DOMAIN o |-> IF k \in DOMAIN o THEN o[k] ELSE d[k]]

\* calls i and j are the same operation with the same arguments under the
\* same flag
SameCall(i, j) ==
    /\ log[i].op = log[j].op
    /\ log[i].envAt = log[j].envAt
    /\ log[i].op \in {"set", "clear"} =>
          /\ log[i].res = log[j].res /\ log[i].name = log[j].name
          /\ log[i].value = log[j].value /\ log[i].overrides = log[j].overrides
    /\ log[i].op = "get" => log[i].req = log[j].req /\ log[i].name = log[j].name

\* C13 - statelessness: whatever calls were made before, for whichever
\* responses, the instruction a set or clear hands over is determined by that
\* call's own arguments and the flag at the call, and goes to the response the
\* call named and to no other; equal calls give equal results; the caller's
\* override map and the request are left as they were passed.
C13_Stateless ==
    /\ \A i \in Calls({"set", "clear"}) :
          /\ log[i].instr =
                << [op |-> IF log[i].op = "set" THEN "cookie" ELSE "clearCookie",
                    res |-> log[i].res, name |-> log[i].name,
                    value |-> log[i].value, options |-> OwnAttributes(i)] >>
          /\ log[i].after = log[i].overrides
    /\ \A i \in Calls({"get"}) : log[i].after = log[i].req
    /\ \A i, j \in 1..Len(log) :
          (i < j /\ SameCall(i, j)) =>
              /\ log[i].ret = log[j].ret
              /\ log[i].op \in {"set", "clear"} => log[i].instr = log[j].instr

\* a set with overrides for one response, then, the flag changed, a clear
\* without overrides for another: the second carries nothing of the first
C13_Witness ==
    /\ Len(log) = 2
    /\ log[1].op = "set" /\ log[1].res = "resA" /\ log[1].envAt = "production"
    /\ log[1].overrides = CallSiteOverrides
    /\ log[2].op = "clear" /\ log[2].res = "resB" /\ log[2].envAt = "undefined"
    /\ log[2].overrides = NoOverrides
    /\ Handed(2).maxAge = 900000 /\ Handed(2).secure = FALSE
    /\ Len(Instructions("resA", 2)) = 1 /\ Len(Instructions("resB", 2)) = 1

NoFailurePath ==
    /\ portOwner = "other" =>
          /\ state = "NotStarted"
          /\ setupPromise \in {"none", "pending"}
          /\ pc \in {"before", "beforeAwait"}
    /\ listenError => setupPromise = "pending"
    /\ reqPhase \in {"sent", "receiving", "aborted"} => promise.status = "pending"

SettleStep ==
    /\ setupPromise' # setupPromise =>
          \/ setupPromise = "none" /\ setupPromise' = "pending"
          \/ setupPromise = "pending" /\ setupPromise' = "resolved" /\ state = "Listening"
    /\ (promise.status = "pending" /\ promise'.status # "pending") =>
          \/ promise'.status = "resolved" /\ endEmitted
          \/ promise'.status = "rejected" /\ reqPhase = "sent" /\ netError'[cur] # "none"
    /\ promise.status \in {"resolved", "rejected"} =>
          promise' = promise \/ promise' = NoPromise
    /\ reqPhase = "aborted" => reqPhase' = "aborted" /\ promise' = promise

\* C14 - no failure path, no timeout: the setup promise settles only through
\* the listen callback, so with the port in use it stays pending and the
\* harness never reaches Listening; a makeRequest promise settles at most
\* once, only through the response's 'end' or the request's 'error', so a
\* response that never ends leaves it pending for good.
C14_NoFailurePathNoTimeout ==
    /\ []NoFailurePath
    /\ [][SettleStep]_vars

\* the port was in use: the server reported the error and the setup promise
\* is still pending, the listener not started
C14_Witness ==
    /\ listenError /\ portOwner = "other"
    /\ setupPromise = "pending" /\ state = "NotStarted" /\ pc = "beforeAwait"

=============================================================================
